---- MODULE Spec2Model ----
(***************************************************************************)
(* A model of treearbo: the Span and Tree value types, the path-addressed  *)
(* edit operations of Tree, the notation parser (string_to_tree) and the   *)
(* serializer (tree_to_string).                                            *)
(*                                                                         *)
(* Python objects are modelled with their identity.  A heap h is a record  *)
(*   nodes : Seq(Tree object)   -- a Tree is [type_, value, kids, span],   *)
(*                                 kids being the id of a list object      *)
(*   lists : Seq(Seq(node id))  -- the list objects                        *)
(* and an id is an index into these sequences.  Strings are sequences of   *)
(* one-character strings, positions are 0-based as in the source.          *)
(***************************************************************************)
EXTENDS Integers, Sequences, FiniteSets, TLC

VARIABLES string, ps, round, heap, recv, call, ret

vars == <<string, ps, round, heap, recv, call, ret>>

\* ------------------------------------------------------------------ bounds
MaxLen == 7
MaxPath == 2
MaxOps == 2
MaxSpanLen == 3
MaxTypeLen == 2

\* ------------------------------------------------------------- characters
TAB == "\t"
LF == "\n"
BS == "\\"
SP == " "

Alphabet == {"a", SP, TAB, LF, BS}

\* the object None, as a node id
None == 0

RECURSIVE StringsUpTo(_)
StringsUpTo(n) ==
    IF n = 0 THEN {<<>>}
    ELSE LET shorter == StringsUpTo(n - 1)
         IN  shorter \cup {Append(s, c) : s \in {x \in shorter : Len(x) = n - 1}, c \in Alphabet}

\* string[pos] and string[a:b] of Python, for 0 <= a, b
At(s, pos) == s[pos + 1]

Slice(s, a, b) == IF b <= a THEN <<>> ELSE SubSeq(s, a + 1, b)

\* ------------------------------------------------------------------- Span
Span(uri, source, row, col, length) ==
    [uri |-> uri, source |-> source, row |-> row, col |-> col, length |-> length]

Span_begin(uri, source) == Span(uri, source, 1, 1, 0)

Span_entire(uri, source) == Span(uri, source, 1, 1, Len(source))

Span_unknown == Span_begin("?", <<>>)

Span_span(self, row, col, length) == Span(self.uri, self.source, row, col, length)

\* ------------------------------------------------------------------- heap
EmptyHeap == [nodes |-> <<>>, lists |-> <<>>]

\* a new list object holding items
NewList(h, items) ==
    [h |-> [h EXCEPT !.lists = Append(@, items)], id |-> Len(h.lists) + 1]

\* Tree.__init__: a new Tree object whose kids attribute is the list object kids
Tree(h, type_, value, kids, span) ==
    [h |-> [h EXCEPT !.nodes = Append(@, [type_ |-> type_, value |-> value,
                                           kids |-> kids, span |-> span])],
     id |-> Len(h.nodes) + 1]

\* node.kids, as the sequence of the children's ids
Kids(h, n) == h.lists[h.nodes[n].kids]

\* list.append on the list object l
ListAppend(h, l, item) == [h EXCEPT !.lists[l] = Append(@, item)]

\* Tree.wrap / Tree.list_ called with a fresh list literal
Tree_wrap(h, items, span) ==
    LET l == NewList(h, items)
    IN  Tree(l.h, <<>>, <<>>, l.id, span)

\* ----------------------------------------------------------- scanning loops
\* while len(string) > pos and string[pos] in chars: pos += 1
RECURSIVE SkipWhile(_, _, _)
SkipWhile(s, pos, chars) ==
    IF Len(s) > pos /\ At(s, pos) \in chars THEN SkipWhile(s, pos + 1, chars) ELSE pos

\* while len(string) > pos and string[pos] not in chars: pos += 1
RECURSIVE SkipUntil(_, _, _)
SkipUntil(s, pos, chars) ==
    IF Len(s) > pos /\ At(s, pos) \notin chars THEN SkipUntil(s, pos + 1, chars) ELSE pos

\* whether str.index(ch, pos) finds ch; it raises ValueError when it does not
IndexFinds(s, ch, pos) == SkipUntil(s, pos, {ch}) < Len(s)

\* seq[:n] and seq[i] of Python for any integers n, i (negative ones count from the end)
PySlicePrefix(seq, n) ==
    LET stop == IF n < 0 THEN (IF Len(seq) + n < 0 THEN 0 ELSE Len(seq) + n)
                ELSE (IF n > Len(seq) THEN Len(seq) ELSE n)
    IN  SubSeq(seq, 1, stop)

PyIndexOk(seq, i) == IF i < 0 THEN Len(seq) + i >= 0 ELSE i < Len(seq)

PyIndex(seq, i) == IF i < 0 THEN seq[Len(seq) + i + 1] ELSE seq[i + 1]

\* ----------------------------------------------------------------- parser
StringToTreeErrors == {"TooFewTabs", "TooManyTabs", "WrongNodesSeparator", "UnexpectedEOF"}

\* the state of string_to_tree before its first line
parser_init(s) ==
    LET root == Tree_wrap(EmptyHeap, <<>>, Span_entire("?", s))
    IN  [string |-> s, h |-> root.h, root |-> root.id, stack |-> <<root.id>>,
         pos |-> 0, row |-> 0, min_indent |-> 0, indent |-> 0,
         status |-> IF Len(s) > 0 THEN "run" ELSE "done"]

\* Tree(text, "", [], span) or Tree("", text, [], span) appended to parent.kids;
\* the new node becomes parent
AppendChild(c, type_, value, span) ==
    LET l == NewList(c.h, <<>>)
        n == Tree(l.h, type_, value, l.id, span)
    IN  [c EXCEPT !.h = ListAppend(n.h, n.h.nodes[c.parent].kids, n.id),
                  !.parent = n.id]

\* the loop over the labels of one line; c = [h, parent, pos, status]
RECURSIVE chain(_, _)
chain(ctx, c) ==
    LET s == ctx.string
    IN  IF ~(Len(s) > c.pos /\ At(s, c.pos) # BS /\ At(s, c.pos) # LF) THEN c
        ELSE
            LET error_start == c.pos
                pos1 == SkipWhile(s, c.pos, {SP, TAB})
            IN  IF pos1 > error_start
                THEN [c EXCEPT !.pos = pos1,
                               !.status = IF IndexFinds(s, LF, pos1)
                                          THEN "WrongNodesSeparator" ELSE "ValueError"]
                ELSE
                    LET type_start == pos1
                        pos2 == SkipUntil(s, pos1, {BS, SP, TAB, LF})
                        c2 == IF pos2 > type_start
                              THEN AppendChild(c, Slice(s, type_start, pos2), <<>>,
                                       Span_span(ctx.span, ctx.row,
                                                 type_start - ctx.line_start + 1,
                                                 pos2 - type_start))
                              ELSE c
                        pos3 == IF Len(s) > pos2 /\ At(s, pos2) = SP THEN pos2 + 1 ELSE pos2
                    IN  chain(ctx, [c2 EXCEPT !.pos = pos3])

\* the data node of a line, if the line has one
data_part(ctx, c) ==
    LET s == ctx.string
    IN  IF Len(s) > c.pos /\ At(s, c.pos) = BS
        THEN LET data_start == c.pos
                 pos1 == SkipUntil(s, c.pos, {LF})
                 c2 == AppendChild(c, <<>>, Slice(s, data_start + 1, pos1),
                           Span_span(ctx.span, ctx.row, data_start - ctx.line_start + 2,
                                     pos1 - data_start - 1))
             IN  [c2 EXCEPT !.pos = pos1]
        ELSE c

Fail(p, pos, row, kind) == [p EXCEPT !.pos = pos, !.row = row, !.status = kind]

\* one iteration of the outer loop of string_to_tree: one line of the input
parse_line(p) ==
    LET s == p.string
        line_start == p.pos
        row == p.row + 1
        pos1 == SkipWhile(s, p.pos, {TAB})
        tabs == pos1 - p.pos
        min_indent == IF Len(Kids(p.h, p.root)) = 0 THEN tabs ELSE p.min_indent
        indent == tabs - min_indent
        bad == indent < 0 \/ indent >= Len(p.stack)
        pos2 == IF bad THEN SkipUntil(s, pos1, {LF}) ELSE pos1
    IN  IF bad /\ indent < 0 /\ Len(s) > pos2 THEN Fail(p, pos2, row, "TooFewTabs")
        ELSE IF bad /\ indent >= 0 THEN Fail(p, pos2, row, "TooManyTabs")
        ELSE
            LET stack1 == PySlicePrefix(p.stack, indent + 1)
            IN  IF ~PyIndexOk(stack1, indent) THEN Fail(p, pos2, row, "IndexError")
                ELSE
                    LET ctx == [string |-> s, span |-> p.h.nodes[p.root].span,
                                row |-> row, line_start |-> line_start]
                        c == chain(ctx, [h |-> p.h, parent |-> PyIndex(stack1, indent),
                                         pos |-> pos2, status |-> "run"])
                        d == data_part(ctx, c)
                    IN  IF c.status # "run" THEN Fail(p, c.pos, row, c.status)
                        ELSE IF Len(s) = d.pos /\ Len(stack1) > 0
                        THEN Fail(p, d.pos, row, "UnexpectedEOF")
                        ELSE [p EXCEPT !.h = d.h,
                                       !.stack = Append(stack1, d.parent),
                                       !.pos = d.pos + 1,
                                       !.row = row,
                                       !.min_indent = min_indent,
                                       !.indent = indent,
                                       !.status = IF Len(s) > d.pos + 1 THEN "run" ELSE "done"]

\* string_to_tree run to its end: the parser state with status "done" or the failure
RECURSIVE parse_all(_)
parse_all(p) == IF p.status = "run" THEN parse_all(parse_line(p)) ELSE p

string_to_tree(s) == parse_all(parser_init(s))

\* ------------------------------------------------------------- serializer
\* a leaf is written when it has a value, and also when it is not the top of the dump
emits_leaf_with_value_only(n, prefix) == Len(n.value) > 0

\* elif len(tree_.value) or len(prefix)
emits_leaf(n, prefix) == Len(n.value) > 0 \/ Len(prefix) > 0

RECURSIVE dump(_, _, _), dump_kids(_, _, _, _)
dump(h, tree_, prefix) ==
    LET n == h.nodes[tree_]
        kids == Kids(h, tree_)
    IN  IF Len(n.type_) > 0
        THEN LET prefix1 == IF Len(prefix) = 0 THEN <<TAB>> ELSE prefix
             IN  IF Len(kids) = 1
                 THEN n.type_ \o <<SP>> \o dump(h, kids[1], prefix1)
                 ELSE n.type_ \o <<LF>> \o dump_kids(h, kids, prefix1, 1)
        ELSE (IF emits_leaf(n, prefix) THEN <<BS>> \o n.value \o <<LF>> ELSE <<>>)
             \o dump_kids(h, kids, prefix, 1)

\* for kid in tree_.kids: output.append(prefix); dump(kid, prefix + "\t")
dump_kids(h, kids, prefix, i) ==
    IF i > Len(kids) THEN <<>>
    ELSE prefix \o dump(h, kids[i], prefix \o <<TAB>>) \o dump_kids(h, kids, prefix, i + 1)

tree_to_string(h, tree) == dump(h, tree, <<>>)

\* ------------------------------------------------------------------ Tree
\* what a call gives: the heap after it and the object returned, or the
\* exception raised
Ok(h, r) == [h |-> h, r |-> r, err |-> ""]

Raise(h, e) == [h |-> h, r |-> None, err |-> e]

\* re.match(r'[ \n\t\\]', type_): the pattern is matched at the start of type_
re_match(type_) == Len(type_) > 0 /\ type_[1] \in {SP, LF, TAB, BS}

\* Tree.struct(type_, kids, span), kids a list object
Tree_struct(h, type_, kids, span) ==
    IF re_match(type_) THEN Raise(h, "TreeError")
    ELSE LET n == Tree(h, type_, <<>>, kids, span) IN Ok(n.h, n.id)

\* self._struct(type_, []): the kids argument is a fresh list
Tree__struct(h, self, type_) ==
    LET l == NewList(h, <<>>)
    IN  Tree_struct(l.h, type_, l.id, h.nodes[self].span)

\* a clone that takes the type and leaves the value behind
Tree_clone_without_value(h, self, kids, span) ==
    LET n == Tree(h, h.nodes[self].type_, <<>>, kids,
                  IF span = None THEN h.nodes[self].span ELSE span)
    IN  Ok(n.h, n.id)

\* self.clone(kids, span): span None stands for the default
Tree_clone(h, self, kids, span) ==
    LET n == Tree(h, h.nodes[self].type_, h.nodes[self].value, kids,
                  IF span = None THEN h.nodes[self].span ELSE span)
    IN  Ok(n.h, n.id)

\* "sub = self.kids" for "sub = self.kids[:]": the list of the receiver itself
kids_alias(h, self) == [h |-> h, id |-> h.nodes[self].kids]

\* self.kids[:]
kids_copy(h, self) == NewList(h, Kids(h, self))

\* list(filter(bool, sub)): a Tree is truthy, None is not
list_filter_bool(h, sub) == NewList(h, SelectSeq(h.lists[sub], LAMBDA x : x # None))

\* sub[i] = item
ListSet(h, l, i, item) ==
    [h EXCEPT !.lists[l] = [@ EXCEPT ![IF i < 0 THEN Len(@) + i + 1 ELSE i + 1] = item]]

\* path segments: a type label, an integer, or None
Label(s) == [k |-> "str", s |-> s, i |-> 0]
Index(i) == [k |-> "int", s |-> <<>>, i |-> i]
Unbound == [k |-> "none", s |-> <<>>, i |-> 0]

RECURSIVE Tree_insert(_, _, _, _), insert_str_loop(_, _, _, _, _, _, _),
          insert_map(_, _, _, _, _)

\* the loop of the string branch from the i-th kid on; st = [h, err, replaced]
insert_str_loop(st, sub, items, i, value, type_, rest) ==
    IF i > Len(items) \/ st.err # "" THEN st
    ELSE
        LET item == items[i]
            h1 == IF st.h.nodes[item].type_ # type_
                  THEN ListAppend(st.h, sub, item) ELSE st.h
            elem == Tree_insert(h1, item, value, rest)
            h2 == IF elem.err = "" /\ elem.r # None
                  THEN ListAppend(elem.h, sub, elem.r) ELSE elem.h
        IN  insert_str_loop([h |-> h2, err |-> elem.err, replaced |-> TRUE],
                            sub, items, i + 1, value, type_, rest)

\* map(lambda item: item.insert(value, *path[1:]), items) from the i-th item on,
\* the results collected in acc; st = [h, err, acc]
insert_map(st, items, i, value, rest) ==
    IF i > Len(items) \/ st.err # "" THEN st
    ELSE
        LET elem == Tree_insert(st.h, items[i], value, rest)
        IN  insert_map([h |-> elem.h, err |-> elem.err,
                        acc |-> IF elem.err = "" THEN Append(st.acc, elem.r) ELSE st.acc],
                       items, i + 1, value, rest)

Tree_insert(h, self, value, path) ==
    IF Len(path) = 0 THEN Ok(h, value)
    ELSE
        LET type_ == Head(path)
            rest == Tail(path)
        IN  IF type_.k = "str" THEN
                LET sub == NewList(h, <<>>)
                    lp == insert_str_loop([h |-> sub.h, err |-> "", replaced |-> FALSE],
                                          sub.id, Kids(h, self), 1, value, type_.s, rest)
                IN  IF lp.err # "" THEN Raise(lp.h, lp.err)
                    ELSE
                        LET sub1 == list_filter_bool(lp.h, sub.id)
                        IN  IF ~lp.replaced /\ value # None THEN
                                LET made == Tree__struct(sub1.h, self, type_.s)
                                    elem == IF made.err # "" THEN made
                                            ELSE Tree_insert(made.h, made.r, value, rest)
                                IN  IF elem.err # "" THEN Raise(elem.h, elem.err)
                                    ELSE Tree_clone(IF elem.r # None
                                                    THEN ListAppend(elem.h, sub1.id, elem.r)
                                                    ELSE elem.h,
                                                    self, sub1.id, None)
                            ELSE Tree_clone(sub1.h, self, sub1.id, None)
            ELSE IF type_.k = "int" THEN
                LET sub == kids_copy(h, self)
                IN  IF ~PyIndexOk(sub.h.lists[sub.id], type_.i)
                    THEN Raise(sub.h, "IndexError")
                    ELSE
                        LET elem == Tree_insert(sub.h, PyIndex(sub.h.lists[sub.id], type_.i),
                                                value, rest)
                        IN  IF elem.err # "" THEN Raise(elem.h, elem.err)
                            ELSE
                                LET h1 == ListSet(elem.h, sub.id, type_.i, elem.r)
                                    kids == list_filter_bool(h1, sub.id)
                                IN  Tree_clone(kids.h, self, kids.id, None)
            ELSE
                LET wrapped == IF Len(Kids(h, self)) = 0
                               THEN Tree_wrap(h, <<>>, Span_unknown)
                               ELSE [h |-> h, id |-> None]
                    items == IF Len(Kids(h, self)) = 0 THEN <<wrapped.id>> ELSE Kids(h, self)
                    mp == insert_map([h |-> wrapped.h, err |-> "", acc |-> <<>>],
                                     items, 1, value, rest)
                IN  IF mp.err # "" THEN Raise(mp.h, mp.err)
                    ELSE
                        LET kids == NewList(mp.h, SelectSeq(mp.acc, LAMBDA x : x # None))
                        IN  Tree_clone(kids.h, self, kids.id, None)

\* the inner loop of select, for item in prev, from the i-th item on:
\* st = [next_, err]; a string or an integer segment leaves the loop (break)
\* after its first item
RECURSIVE select_items(_, _, _, _, _)
select_items(h, st, prev, i, type_) ==
    IF i > Len(prev) \/ st.err # "" THEN st
    ELSE
        LET kids == Kids(h, prev[i])
        IN  IF type_.k = "str"
            THEN [st EXCEPT !.next_ = @ \o SelectSeq(kids,
                                              LAMBDA child : h.nodes[child].type_ = type_.s)]
            ELSE IF type_.k = "int"
            THEN IF type_.i < Len(kids)
                 THEN IF PyIndexOk(kids, type_.i)
                      THEN [st EXCEPT !.next_ = Append(@, PyIndex(kids, type_.i))]
                      ELSE [st EXCEPT !.err = "IndexError"]
                 ELSE st
            \* next_.append(*item.kids): append takes exactly one argument
            ELSE IF Len(kids) # 1 THEN [st EXCEPT !.err = "TypeError"]
            ELSE select_items(h, [st EXCEPT !.next_ = Append(@, kids[1])], prev, i + 1, type_)

\* the outer loop of select, for type_ in path
RECURSIVE select_path(_, _, _)
select_path(h, st, path) ==
    IF Len(path) = 0 \/ st.err # "" \/ Len(st.next_) = 0 THEN st
    ELSE select_path(h, select_items(h, [next_ |-> <<>>, err |-> ""], st.next_, 1, Head(path)),
                     Tail(path))

Tree_select(h, self, path) ==
    LET st == select_path(h, [next_ |-> <<self>>, err |-> ""], path)
    IN  IF st.err # "" THEN Raise(h, st.err)
        ELSE LET n == Tree_wrap(h, st.next_, h.nodes[self].span) IN Ok(n.h, n.id)

\* the value argument of filter: None, or a string
NoValue == [none |-> TRUE, s |-> <<>>]
Value(s) == [none |-> FALSE, s |-> s]

\* the loop of filter from the i-th kid on; st = [h, err]
RECURSIVE filter_loop(_, _, _, _, _, _)
filter_loop(st, sub, items, i, path, value) ==
    IF i > Len(items) \/ st.err # "" THEN st
    ELSE
        LET item == items[i]
            found == Tree_select(st.h, item, path)
            keep == IF found.err # "" THEN FALSE
                    ELSE IF value.none THEN Len(Kids(found.h, found.r)) > 0
                    ELSE \E j \in 1..Len(Kids(found.h, found.r)) :
                             found.h.nodes[Kids(found.h, found.r)[j]].value = value.s
        IN  filter_loop([h |-> IF keep THEN ListAppend(found.h, sub, item) ELSE found.h,
                         err |-> found.err],
                        sub, items, i + 1, path, value)

Tree_filter(h, self, path, value) ==
    LET sub == NewList(h, <<>>)
        lp == filter_loop([h |-> sub.h, err |-> ""], sub.id, Kids(h, self), 1, path, value)
    IN  IF lp.err # "" THEN Raise(lp.h, lp.err)
        ELSE Tree_clone(lp.h, self, sub.id, None)

\* value.split("\n")
RECURSIVE str_split(_)
str_split(s) ==
    LET cut == SkipUntil(s, 0, {LF})
    IN  IF cut = Len(s) THEN <<s>>
        ELSE <<Slice(s, 0, cut)>> \o str_split(Slice(s, cut + 1, Len(s)))

\* Tree("", chunk, [], kid_span.after(len(chunk))) for the chunks from the i-th on,
\* appended to the list object l
RECURSIVE data_chunks(_, _, _, _, _)
data_chunks(h, l, chunks, i, span) ==
    IF i > Len(chunks) THEN h
    ELSE LET kl == NewList(h, <<>>)
             n == Tree(kl.h, <<>>, chunks[i], kl.id,
                       Span(span.uri, span.source, span.row, span.col, Len(chunks[i])))
         IN  data_chunks(ListAppend(n.h, l, n.id), l, chunks, i + 1, span)

\* Tree.data(value, kids, span), kids a sequence of nodes
Tree_data(h, value, kids, span) ==
    LET chunks == str_split(value)
    IN  IF Len(chunks) > 1
        THEN LET l == NewList(h, <<>>)
                 h1 == data_chunks(l.h, l.id, chunks, 1, span)
                 h2 == [h1 EXCEPT !.lists[l.id] = @ \o kids]
                 n == Tree(h2, <<>>, <<>>, l.id, span)
             IN  Ok(n.h, n.id)
        ELSE LET l == NewList(h, kids)
                 n == Tree(l.h, <<>>, value, l.id, span)
             IN  Ok(n.h, n.id)

\* ------------------------------------------------------------------- hack
\* A belt maps type labels to handlers.  The handlers are those of the tests and
\* of the specification's notes on what a handler may return:
\*   "data"   lambda i, b, c: [i.data("x")]
\*   "struct" lambda i, b, c: [i.struct("x", i.hack(b))]
\*   "clone"  lambda i, b, c: [i.clone(i.hack(b))]
\*   "drop"   lambda i, b, c: []
Handlers == {"data", "struct", "clone", "drop"}

HasEntry(belt, key) == key \in DOMAIN belt

RECURSIVE Tree_hack(_, _, _), hack_self(_, _, _), hack_loop(_, _, _, _)

\* the default handler: the node cloned with its children hacked
default_handler(h, node, hacked) ==
    LET l == NewList(hacked.h, hacked.r)
        n == Tree_clone(l.h, node, l.id, None)
    IN  [h |-> n.h, r |-> <<n.r>>, err |-> ""]

\* single-node dispatch: belt[node.type_], else belt[""], else the default handler
hack_self(h, node, belt) ==
    LET type_ == h.nodes[node].type_
        handler == IF HasEntry(belt, type_) THEN belt[type_]
                   ELSE IF HasEntry(belt, <<>>) THEN belt[<<>>]
                   ELSE "default"
    IN  IF handler = "drop" THEN [h |-> h, r |-> <<>>, err |-> ""]
        ELSE IF handler = "data"
        THEN LET n == Tree_data(h, <<"x">>, <<>>, Span_unknown)
             IN  [h |-> n.h, r |-> <<n.r>>, err |-> ""]
        ELSE
            LET hacked == Tree_hack(h, node, belt)
            IN  IF hacked.err # "" THEN hacked
                ELSE IF handler = "struct"
                THEN LET l == NewList(hacked.h, hacked.r)
                         n == Tree_struct(l.h, <<"x">>, l.id, Span_unknown)
                     IN  [h |-> n.h, r |-> <<n.r>>, err |-> n.err]
                ELSE default_handler(h, node, hacked)

\* hack_self on the kids from the i-th on, the sequences concatenated in order
hack_loop(st, items, i, belt) ==
    IF i > Len(items) \/ st.err # "" THEN st
    ELSE LET one == hack_self(st.h, items[i], belt)
         IN  hack_loop([h |-> one.h, r |-> st.r \o one.r, err |-> one.err],
                       items, i + 1, belt)

Tree_hack(h, node, belt) ==
    hack_loop([h |-> h, r |-> <<>>, err |-> ""], Kids(h, node), 1, belt)

\* ------------------------------------------------------------- Span.slice
\* slice with an empty range refused: "if end <= begin" for "if end < begin"
Span_slice_refusing_empty(self, begin, end) ==
    LET begin1 == IF begin < 0 THEN begin + self.length ELSE begin
        end1 == IF end < 0 THEN end + self.length ELSE end
    IN  IF begin1 < 0 \/ begin1 > self.length THEN [err |-> "SpanError", r |-> None]
        ELSE IF end1 < 0 \/ end1 > self.length THEN [err |-> "SpanError", r |-> None]
        ELSE IF end1 <= begin1 THEN [err |-> "SpanError", r |-> None]
        ELSE [err |-> "", r |-> Span_span(self, self.row, self.col + begin1, end1 - begin1)]

\* what slice gives: the new span, or the exception raised
Span_slice(self, begin, end) ==
    LET begin1 == IF begin < 0 THEN begin + self.length ELSE begin
        end1 == IF end < 0 THEN end + self.length ELSE end
    IN  IF begin1 < 0 \/ begin1 > self.length THEN [err |-> "SpanError", r |-> None]
        ELSE IF end1 < 0 \/ end1 > self.length THEN [err |-> "SpanError", r |-> None]
        ELSE IF end1 < begin1 THEN [err |-> "SpanError", r |-> None]
        ELSE [err |-> "", r |-> Span_span(self, self.row, self.col + begin1, end1 - begin1)]

\* ---------------------------------------------------- the shape of a tree
\* a node with its type, value and ordered children, without object identity
RECURSIVE Shape(_, _)
Shape(h, n) ==
    [type_ |-> h.nodes[n].type_, value |-> h.nodes[n].value,
     kids |-> [i \in 1..Len(Kids(h, n)) |-> Shape(h, Kids(h, n)[i])]]

\* The objects a call created are released with its result, unless an object that
\* existed before the call refers to one of them.
Release(h, before) ==
    IF \A l \in 1..Len(before.lists) :
           \A j \in 1..Len(h.lists[l]) : h.lists[l][j] <= Len(before.nodes)
    THEN [nodes |-> SubSeq(h.nodes, 1, Len(before.nodes)),
          lists |-> SubSeq(h.lists, 1, Len(before.lists))]
    ELSE h

\* ------------------------------------------- values of the unused variables
NoCall == [op |-> "none"]
NoRet == [set |-> FALSE]
NoParser == parser_init(<<>>)

\* ========================================================================
\* Specification SpecParse: string_to_tree on every string up to MaxLen, its
\* result serialized, and the serialization parsed and serialized again.
\* ========================================================================
InitParse ==
    /\ string \in StringsUpTo(MaxLen)
    /\ ps = parser_init(string)
    /\ round = 1
    /\ heap = EmptyHeap
    /\ recv = None
    /\ call = NoCall
    /\ ret = NoRet

ParseLine ==
    /\ ps.status = "run"
    /\ ps' = parse_line(ps)
    /\ UNCHANGED <<string, round, heap, recv, call, ret>>

Serialize ==
    /\ ps.status = "done"
    /\ ~ret.set
    /\ ret' = [set |-> TRUE, text |-> tree_to_string(ps.h, ps.root)]
    /\ UNCHANGED <<string, ps, round, heap, recv, call>>

Reparse ==
    /\ round = 1
    /\ ret.set
    /\ string' = ret.text
    /\ ps' = parser_init(ret.text)
    /\ round' = 2
    /\ call' = [op |-> "reparse", input |-> string]
    /\ ret' = NoRet
    /\ UNCHANGED <<heap, recv>>

NextParse == ParseLine \/ Serialize \/ Reparse

SpecParse == InitParse /\ [][NextParse]_vars

\* C1: for every input s that string_to_tree accepts, with t = string_to_tree(s),
\* string_to_tree accepts tree_to_string(t) and the tree it gives serializes to
\* tree_to_string(t) again.  (In round 2 string is tree_to_string(t).)
C1_RoundTrip ==
    round = 2 =>
        /\ ps.status \in {"run", "done"}
        /\ ret.set => ret.text = string

\* a round trip of an input that was not in normal form, with a node nested in another
C1_Witness ==
    /\ round = 2
    /\ ret.set
    /\ ret.text = string
    /\ call.input # string
    /\ \E n \in 2..Len(ps.h.nodes) : Len(Kids(ps.h, n)) >= 1

\* the number of tabs that begin the line starting at pos
TabsAt(s, pos) == SkipWhile(s, pos, {TAB}) - pos

\* the start of the line after the one starting at pos
LineAfter(s, pos) == SkipUntil(s, pos, {LF}) + 1

\* the start of the line that ends just before pos
RECURSIVE LineUpTo(_, _)
LineUpTo(s, q) == IF q = 0 \/ At(s, q - 1) = LF THEN q ELSE LineUpTo(s, q - 1)

LineBefore(s, pos) == LineUpTo(s, pos - 1)

\* the start of the first line from pos on that produces a node (one with a
\* character other than the newline after its tabs), -1 when there is none
RECURSIVE FirstNodeLine(_, _)
FirstNodeLine(s, pos) ==
    IF pos >= Len(s) THEN -1
    ELSE LET q == SkipWhile(s, pos, {TAB})
         IN  IF Len(s) > q /\ At(s, q) # LF THEN pos ELSE FirstNodeLine(s, LineAfter(s, pos))

\* the effective depth C11 gives the line starting at pos
EffectiveDepth(s, pos) == TabsAt(s, pos) - TabsAt(s, FirstNodeLine(s, 0))

\* a step of the parser over a line that is the first to produce a node or a later one
NodeLineStep ==
    /\ ps.status = "run"
    /\ ps' # ps
    /\ FirstNodeLine(string, 0) # -1
    /\ ps.pos >= FirstNodeLine(string, 0)

\* what C11 says of an accepted line of effective depth e: the stack holds e + 2
\* entries, the deepest node of the line on top, and the first node of the line is
\* the last child of the entry of the old stack at depth e
AcceptedAtDepth(e) ==
    /\ Len(ps'.stack) = e + 2
    /\ Len(ps'.h.nodes) > Len(ps.h.nodes) =>
           /\ ps'.stack[e + 2] = Len(ps'.h.nodes)
           /\ e + 1 <= Len(ps.stack)
           /\ LET kids == Kids(ps'.h, ps.stack[e + 1])
              IN  Len(kids) > 0 /\ kids[Len(kids)] = Len(ps.h.nodes) + 1

\* C11 as claimed, for the lines from the first one that produces a node on: with
\* the effective depth of a line its tabs minus the tabs of that first line, after
\* an accepted line of depth e the stack holds e + 2 entries with the line's deepest
\* node on top and the line's first node is the last child of the stack entry at
\* depth e; and a line that follows an accepted line of depth d fails with too few
\* tabs when its depth is below 0, with too many tabs when it is above d + 1, and
\* with neither when it is in 0..d+1.
C11_DepthDecidesAcceptance ==
    [][NodeLineStep =>
        LET e == EffectiveDepth(string, ps.pos)
        IN  /\ ps'.status \in {"run", "done"} => AcceptedAtDepth(e)
            /\ ps.pos > FirstNodeLine(string, 0) =>
                   LET d == EffectiveDepth(string, LineBefore(string, ps.pos))
                   IN  /\ e < 0 => ps'.status = "TooFewTabs"
                       /\ e > d + 1 => ps'.status = "TooManyTabs"
                       /\ (0 <= e /\ e <= d + 1) =>
                              ps'.status \notin {"TooFewTabs", "TooManyTabs"}]_vars

\* What holds of the code: the same, a line of depth below 0 being refused in
\* every case but with too few tabs only when a newline ends it.
DepthDecidesAcceptanceOfTerminatedLines ==
    [][NodeLineStep =>
        LET e == EffectiveDepth(string, ps.pos)
        IN  /\ ps'.status \in {"run", "done"} => AcceptedAtDepth(e)
            /\ ps.pos > FirstNodeLine(string, 0) =>
                   LET d == EffectiveDepth(string, LineBefore(string, ps.pos))
                   IN  /\ e < 0 => /\ ps'.status \notin {"run", "done"}
                                   /\ SkipUntil(string, ps.pos, {LF}) < Len(string)
                                          => ps'.status = "TooFewTabs"
                       /\ e > d + 1 => ps'.status = "TooManyTabs"
                       /\ (0 <= e /\ e <= d + 1) =>
                              ps'.status \notin {"TooFewTabs", "TooManyTabs"}]_vars

\* C7 as claimed: string_to_tree returns a tree or fails with one of the four kinds
\* of StringToTreeError, and it fails so on every non-empty input whose last line
\* has no newline.
C7_OnlyStringToTreeError ==
    (round = 1 /\ ps.status # "run") =>
        /\ ps.status \in {"done"} \cup StringToTreeErrors
        /\ (Len(string) > 0 /\ string[Len(string)] # LF) => ps.status \in StringToTreeErrors

\* ========================================================================
\* Specification SpecTree: the operations of Tree called, in any order and
\* any number of times, on a tree t the parser produced.
\* ========================================================================
\* the notation texts of the receivers
SampleSources ==
    { <<>>,
      <<"a", LF>>,
      <<"a", SP, "b", LF>>,
      <<"a", LF, "b", LF>>,
      <<"a", SP, "a", LF, "a", SP, "b", LF>>,
      <<"a", LF, TAB, "a", LF, TAB, "b", LF>>,
      <<"a", SP, "b", SP, "c", SP, "d", LF>>,
      <<"a", SP, BS, "a", LF, "b", LF>>,
      <<"b", LF, TAB, BS, "a", LF, TAB, BS, "b", LF>> }

MaxIndex == 1

Segments == {Label(<<"a">>), Label(<<"b">>)} \cup {Index(i) : i \in 0..MaxIndex} \cup {Unbound}

RECURSIVE PathsUpTo(_)
PathsUpTo(n) ==
    IF n = 0 THEN {<<>>}
    ELSE LET shorter == PathsUpTo(n - 1)
         IN  shorter \cup {Append(q, seg) : q \in {x \in shorter : Len(x) = n - 1},
                                            seg \in Segments}

Paths == PathsUpTo(MaxPath)

FilterValues == {NoValue, Value(<<"a">>), Value(<<"b">>)}

BeltKeys == {<<"a">>, <<"b">>, <<>>}

Belts == UNION {[D -> Handlers] : D \in SUBSET BeltKeys}

\* the node Tree.struct("x") handed to insert; it is built in Init, after the parse
ValueNode == Len(ps.h.nodes) + 1

InitTree ==
    /\ string \in SampleSources
    /\ ps = string_to_tree(string)
    /\ round = 0
    /\ heap = LET l == NewList(ps.h, <<>>)
              IN  Tree_struct(l.h, <<"x">>, l.id, Span_unknown).h
    /\ recv = ps.root
    /\ call = NoCall
    /\ ret = NoRet

\* the result of a call that returns one node (or None)
Returned(res) ==
    [set |-> TRUE, err |-> res.err, none |-> res.r = None,
     shape |-> IF res.err = "" /\ res.r # None THEN Shape(res.h, res.r) ELSE <<>>]

\* a call is made when the caller holds no result; before is the heap it started in
\* round counts the calls made
Idle == call = NoCall /\ round < MaxOps

Called(c, res) ==
    /\ call' = c @@ [before |-> heap]
    /\ heap' = res.h
    /\ round' = round + 1
    /\ UNCHANGED <<string, ps, recv>>

\* the caller drops the result of the last call
Drop ==
    /\ call # NoCall
    /\ heap' = Release(heap, call.before)
    /\ call' = NoCall
    /\ ret' = NoRet
    /\ UNCHANGED <<string, ps, round, recv>>

Insert(value, path) ==
    /\ Idle
    /\ LET res == Tree_insert(heap, recv, value, path)
       IN  /\ ret' = Returned(res)
           /\ Called([op |-> "insert", value |-> value, path |-> path], res)

Select(path) ==
    /\ Idle
    /\ LET res == Tree_select(heap, recv, path)
       IN  /\ ret' = Returned(res)
           /\ Called([op |-> "select", path |-> path], res)

Filter(path, value) ==
    /\ Idle
    /\ LET res == Tree_filter(heap, recv, path, value)
       IN  /\ ret' = Returned(res)
           /\ Called([op |-> "filter", path |-> path, value |-> value], res)

\* t.clone(t.kids) when own, t.clone([x]) otherwise
Clone(own) ==
    /\ Idle
    /\ LET l == IF own THEN [h |-> heap, id |-> heap.nodes[recv].kids]
                ELSE NewList(heap, <<ValueNode>>)
           res == Tree_clone(l.h, recv, l.id, None)
       IN  /\ ret' = Returned(res)
           /\ Called([op |-> "clone", own |-> own], res)

\* Tree.struct(type_, [])
Struct(type_) ==
    /\ Idle
    /\ LET l == NewList(heap, <<>>)
           res == Tree_struct(l.h, type_, l.id, Span_unknown)
       IN  /\ ret' = Returned(res)
           /\ Called([op |-> "struct", type_ |-> type_], res)

Hack(belt) ==
    /\ Idle
    /\ LET res == Tree_hack(heap, recv, belt)
       IN  /\ ret' = [set |-> TRUE, err |-> res.err, none |-> FALSE,
                      shape |-> [i \in 1..Len(res.r) |-> Shape(res.h, res.r[i])]]
           /\ Called([op |-> "hack", belt |-> belt], res)

NextTree ==
    \/ \E value \in {None, ValueNode}, path \in Paths : Insert(value, path)
    \/ \E path \in Paths : Select(path)
    \/ \E path \in Paths, value \in FilterValues : Filter(path, value)
    \/ \E own \in BOOLEAN : Clone(own)
    \/ \E type_ \in StringsUpTo(MaxTypeLen) : Struct(type_)
    \/ \E belt \in Belts : Hack(belt)
    \/ Drop

SpecTree == InitTree /\ [][NextTree]_vars

\* the receiver and the value of the last call, as they were when it was made
Receiver == Shape(call.before, recv)

OnlyLabels(path) == \A i \in 1..Len(path) : path[i].k = "str"

NoUnbound(path) == \A i \in 1..Len(path) : path[i].k # "none"

RECURSIVE Flatten(_)
Flatten(seqs) == IF Len(seqs) = 0 THEN <<>> ELSE Head(seqs) \o Flatten(Tail(seqs))

\* what C2 says insert(v, *path) returns for a path of labels: at each level the
\* children of the segment's type replaced in place, the others kept, and one
\* synthesized child appended when none matched
RECURSIVE ClaimedInsert(_, _, _)
ClaimedInsert(t, v, path) ==
    IF Len(path) = 0 THEN v
    ELSE
        LET seg == Head(path).s
            kept == [i \in 1..Len(t.kids) |->
                        IF t.kids[i].type_ = seg
                        THEN ClaimedInsert(t.kids[i], v, Tail(path)) ELSE t.kids[i]]
            made == ClaimedInsert([type_ |-> seg, value |-> <<>>, kids |-> <<>>], v, Tail(path))
        IN  [t EXCEPT !.kids = IF \E i \in 1..Len(t.kids) : t.kids[i].type_ = seg
                               THEN kept ELSE Append(kept, made)]

\* C2 as claimed: insert(v, *path) with a node v and a non-empty path of labels
\* replaces the matching children in place, keeps every other child once and in
\* place, and appends one synthesized child only when no child matched.
C2_InsertReplacesOrAppends ==
    (call.op = "insert" /\ call.value # None /\ Len(call.path) > 0 /\ OnlyLabels(call.path)) =>
        /\ ret.err = ""
        /\ ~ret.none
        /\ ret.shape = ClaimedInsert(Receiver, Shape(call.before, call.value), call.path)

\* whether child i (from 1) of t is addressed by a label or integer segment
Addressed(t, i, seg) == IF seg.k = "str" THEN t.kids[i].type_ = seg.s ELSE i - 1 = seg.i

\* every integer segment is an index of every node it is applied to
RECURSIVE InRange(_, _)
InRange(t, path) ==
    \/ Len(path) = 0
    \/ /\ Head(path).k = "int" => Head(path).i < Len(t.kids)
       /\ \A i \in 1..Len(t.kids) :
              Addressed(t, i, Head(path)) => InRange(t.kids[i], Tail(path))

\* what C3 says insert(None, *path) returns: t without the nodes the path addresses
RECURSIVE ClaimedDelete(_, _)
ClaimedDelete(t, path) ==
    [t EXCEPT !.kids = Flatten([i \in 1..Len(t.kids) |->
        IF ~Addressed(t, i, Head(path)) THEN <<t.kids[i]>>
        ELSE IF Len(path) = 1 THEN <<>>
        ELSE <<ClaimedDelete(t.kids[i], Tail(path))>>])]

\* C3 as claimed: insert(None, *path), for a non-empty path of labels and in-range
\* integers, returns t with exactly the addressed nodes removed, every other node
\* still present once, unchanged and in order.  (Stated for the calls that return,
\* so that it does not rest on C4.)
C3_DeleteRemovesExactlyAddressed ==
    (/\ call.op = "insert" /\ call.value = None /\ Len(call.path) > 0
     /\ NoUnbound(call.path) /\ InRange(Receiver, call.path) /\ ret.err = "") =>
        /\ ~ret.none
        /\ ret.shape = ClaimedDelete(Receiver, call.path)

\* C4 as claimed: insert, select and filter never raise, whatever the path of
\* labels, non-negative integers and unbound segments.
C4_EditsNeverRaise ==
    call.op \in {"insert", "select", "filter"} => ret.err = ""

\* what C5 says select narrows a list of candidates to by one segment
ClaimedStep(cands, seg) ==
    Flatten([c \in 1..Len(cands) |->
        IF seg.k = "str" THEN SelectSeq(cands[c].kids, LAMBDA kid : kid.type_ = seg.s)
        ELSE IF seg.k = "int"
        THEN (IF seg.i < Len(cands[c].kids) THEN <<cands[c].kids[seg.i + 1]>> ELSE <<>>)
        ELSE cands[c].kids])

RECURSIVE ClaimedSelect(_, _)
ClaimedSelect(cands, path) ==
    IF Len(path) = 0 THEN cands ELSE ClaimedSelect(ClaimedStep(cands, Head(path)), Tail(path))

\* C5 as claimed: select(*path) narrows the candidates, from [t], one segment at
\* a time over all the candidates, and returns a wrapper over the final list.
\* (Stated for the calls that return, so that it does not rest on C4.)
C5_SelectNarrowsAllCandidates ==
    (call.op = "select" /\ ret.err = "") =>
        ret.shape = [type_ |-> <<>>, value |-> <<>>,
                     kids |-> ClaimedSelect(<<Receiver>>, call.path)]

\* C6: after any sequence of insert, select, filter and clone calls on t, every
\* node the parser built for t has the type, value and span it had, and every
\* list of children holds the same nodes in the same order.
C6_ReceiverNeverMutated ==
    /\ recv = ps.root
    /\ \A n \in 1..Len(ps.h.nodes) : heap.nodes[n] = ps.h.nodes[n]
    /\ \A l \in 1..Len(ps.h.lists) : heap.lists[l] = ps.h.lists[l]

\* a second call, an insert by index that returned a tree other than its receiver
C6_Witness ==
    /\ round = MaxOps
    /\ call.op = "insert"
    /\ \E i \in 1..Len(call.path) : call.path[i].k = "int"
    /\ ret.err = ""
    /\ ~ret.none
    /\ ret.shape # Shape(heap, recv)
    /\ Len(Kids(heap, recv)) >= 2

Forbidden == {SP, TAB, LF, BS}

\* C8 as claimed: struct(type) fails with TreeError when type holds a space, tab,
\* newline or backslash at any position, and otherwise returns the node.
C8_StructRejectsForbiddenAnywhere ==
    call.op = "struct" =>
        IF \E i \in 1..Len(call.type_) : call.type_[i] \in Forbidden
        THEN ret.err = "TreeError"
        ELSE /\ ret.err = ""
             /\ ret.shape = [type_ |-> call.type_, value |-> <<>>, kids |-> <<>>]

\* the types of the nodes below t
RECURSIVE TypesBelow(_)
TypesBelow(t) ==
    UNION {{t.kids[i].type_} \cup TypesBelow(t.kids[i]) : i \in 1..Len(t.kids)}

\* C9: when the belt has no entry for the type of any node below t and no ""
\* entry (the empty belt among them), hack returns a sequence structurally equal
\* to t's children: same types, values, shapes and order.
C9_HackWithoutEntriesKeepsTree ==
    (/\ call.op = "hack"
     /\ ~HasEntry(call.belt, <<>>)
     /\ \A ty \in TypesBelow(Receiver) : ~HasEntry(call.belt, ty)) =>
        /\ ret.err = ""
        /\ ret.shape = Receiver.kids

\* hack with the empty belt on a tree with a leaf and two top-level nodes
C9_Witness ==
    /\ call.op = "hack"
    /\ DOMAIN call.belt = {}
    /\ ret.err = ""
    /\ ret.shape = Shape(heap, recv).kids
    /\ Len(ret.shape) >= 2
    /\ \E i \in 1..Len(ret.shape) : Len(ret.shape[i].kids) >= 1
    /\ <<>> \in TypesBelow(Shape(heap, recv))

\* ========================================================================
\* Specification SpecSpan: Span.slice on a span and on the spans it returns.
\* ========================================================================
SliceArgs == (0 - MaxSpanLen - 1)..(MaxSpanLen + 1)

InitSpan ==
    /\ string = <<>>
    /\ ps = NoParser
    /\ round = 0
    /\ heap = EmptyHeap
    /\ \E row \in 1..2, col \in 1..2, length \in 0..MaxSpanLen :
           recv = Span("test.py", <<>>, row, col, length)
    /\ call = NoCall
    /\ ret = NoRet

SliceSpan(begin, end) ==
    /\ call' = [op |-> "slice", begin |-> begin, end |-> end]
    /\ ret' = [set |-> TRUE] @@ Span_slice(recv, begin, end)
    /\ UNCHANGED <<string, ps, round, heap, recv>>

\* the caller goes on with the span a slice returned
Descend ==
    /\ ret.set
    /\ ret.err = ""
    /\ recv' = ret.r
    /\ call' = NoCall
    /\ ret' = NoRet
    /\ UNCHANGED <<string, ps, round, heap>>

NextSpan ==
    \/ \E begin \in SliceArgs, end \in SliceArgs : SliceSpan(begin, end)
    \/ Descend

SpecSpan == InitSpan /\ [][NextSpan]_vars

\* begin or end of slice, a negative one increased by the length of the span
FromEnd(i) == IF i < 0 THEN i + recv.length ELSE i

\* C10: with negative arguments first increased by the length L of the span,
\* slice(begin, end) succeeds exactly when 0 <= begin <= end <= L, and then returns
\* the span of the same uri, source and row, with col + begin and length
\* end - begin; in every other case it fails with SpanError.
C10_SliceExactlyInRange ==
    call.op = "slice" =>
        LET b == FromEnd(call.begin)
            e == FromEnd(call.end)
        IN  IF 0 <= b /\ b <= e /\ e <= recv.length
            THEN /\ ret.err = ""
                 /\ ret.r = [uri |-> recv.uri, source |-> recv.source, row |-> recv.row,
                             col |-> recv.col + b, length |-> e - b]
            ELSE ret.err = "SpanError" /\ ret.r = None

\* a slice with negative arguments of a span that is itself a slice
C10_Witness ==
    /\ call.op = "slice"
    /\ call.begin < 0
    /\ call.end < 0
    /\ ret.err = ""
    /\ ret.r.length > 0
    /\ recv.col > 2

====
